---- MODULE Spec2Model ----
(***************************************************************************)
(* Model of the Cube.js MCP bridge (src/server.py): the request executor   *)
(* make_request, the tool catalog built on it, raw_request and the health  *)
(* check.  Python strings are sequences of tokens (a token is a TLA+       *)
(* string standing for a run of characters); JSON-compatible Python values *)
(* are tagged records [t, v].  A coroutine runs without interruption from  *)
(* its start to its one await and from there to its end.  The resource     *)
(* cube://meta (get_meta_resource) is not a tool and is left out.          *)
(***************************************************************************)
EXTENDS Integers, Sequences, FiniteSets, TLC

VARIABLES
    config,     \* CUBEJS_API_BASE_URL / CUBEJS_API_TOKEN, read once at import
    pc,         \* per invocation: "idle", "sent", "done"
    call,       \* per invocation: the tool invoked and its arguments
    request,    \* per invocation: the HTTP request in flight
    sent,       \* per invocation: number of HTTP requests put on the wire
    response,   \* per invocation: what the upstream did with the request
    outcome,    \* per invocation: what the coroutine returns or raises
    frame,      \* per invocation: the function holding the client, and the client
    clients     \* per httpx.AsyncClient object: its state and its users

vars == <<config, pc, call, request, sent, response, outcome, frame, clients>>

----------------------------------------------------------------------------
(* Bounds of the model *)

\* number of invocations that may be in progress concurrently
NumInv == 2

Inv == 1 .. NumInv

----------------------------------------------------------------------------
(* Python values *)

None == [t |-> "none", v |-> <<>>]

\* the values of the per-invocation variables before the invocation starts
NoCall == [op |-> "none", method |-> <<>>, endpoint |-> <<>>, params |-> None,
           arg |-> None]

NoRequest == [method |-> <<>>, params |-> None, url |-> <<>>, headers |-> None,
              json |-> None, timeout |-> 0, client |-> 0]

NoFrame == [client |-> 0, fn |-> "none"]

NoResponse == [kind |-> "none", status |-> 0, body |-> <<>>, exc |-> ""]

\* result: what make_request returned; text: the text of the TextContent returned
NoOutcome ==
    [kind |-> "none", exc |-> "", msg |-> <<>>, result |-> None, text |-> <<>>]

Str(s) == [t |-> "str", v |-> s]
Arr(items) == [t |-> "arr", v |-> items]
\* a dict is its items in insertion order, each <<key, value>>
Dict(items) == [t |-> "dict", v |-> items]

IsDict(x) == x.t = "dict"

HasKey(d, k) == \E n \in DOMAIN d.v : d.v[n][1] = k

\* dict.get(k, default)
DictGet(d, k, default) ==
    IF HasKey(d, k)
    THEN d.v[CHOOSE n \in DOMAIN d.v : d.v[n][1] = k][2]
    ELSE default

----------------------------------------------------------------------------
(* str methods *)

UpperChar(c) ==
    CASE c = "g" -> "G"
      [] c = "e" -> "E"
      [] c = "t" -> "T"
      [] c = "p" -> "P"
      [] c = "o" -> "O"
      [] c = "s" -> "S"
      [] OTHER -> c

\* str.upper()
Upper(s) == [k \in DOMAIN s |-> UpperChar(s[k])]

RECURSIVE RStrip(_, _)
\* str.rstrip(ch)
RStrip(s, ch) ==
    IF s # <<>> /\ s[Len(s)] = ch THEN RStrip(SubSeq(s, 1, Len(s) - 1), ch) ELSE s

RECURSIVE LStrip(_, _)
\* str.lstrip(ch)
LStrip(s, ch) ==
    IF s # <<>> /\ Head(s) = ch THEN LStrip(Tail(s), ch) ELSE s

IsPrefix(p, s) == Len(p) <= Len(s) /\ SubSeq(s, 1, Len(p)) = p

RECURSIVE SplitHead(_, _)
\* s.split(sep)[0]
SplitHead(s, sep) ==
    IF s = <<>> \/ IsPrefix(sep, s)
    THEN <<>>
    ELSE <<Head(s)>> \o SplitHead(Tail(s), sep)

----------------------------------------------------------------------------
(* json.dumps / response.json() *)

Quote == "\""
EscapedQuote == "\\\""

\* the body of a JSON string literal: a double quote is escaped
Escape(s) == [k \in DOMAIN s |-> IF s[k] = Quote THEN EscapedQuote ELSE s[k]]

RECURSIVE Dumps(_)
RECURSIVE DumpsItems(_)
RECURSIVE DumpsMembers(_)

\* json.dumps(x), default separators
Dumps(x) ==
    CASE x.t = "none" -> <<"null">>
      [] x.t = "str"  -> <<Quote>> \o Escape(x.v) \o <<Quote>>
      [] x.t = "arr"  -> <<"[">> \o DumpsItems(x.v) \o <<"]">>
      [] x.t = "dict" -> <<"{">> \o DumpsMembers(x.v) \o <<"}">>

DumpsItems(items) ==
    IF items = <<>> THEN <<>>
    ELSE Dumps(Head(items))
         \o (IF Len(items) > 1 THEN <<", ">> ELSE <<>>)
         \o DumpsItems(Tail(items))

DumpsMembers(items) ==
    IF items = <<>> THEN <<>>
    ELSE <<Quote, Head(items)[1], Quote, ": ">> \o Dumps(Head(items)[2])
         \o (IF Len(items) > 1 THEN <<", ">> ELSE <<>>)
         \o DumpsMembers(Tail(items))

\* what response.json() accepts in this model: the documents below
JsonUniverse ==
    { Dict(<<>>),
      Dict(<< <<"measures", Arr(<< Str(<<"Stories.count">>) >>)>> >>),
      Dict(<< <<"error", Str(<<"not found">>)>> >>),
      Dict(<< <<"message", Str(<<"bad ", Quote, "query", Quote>>)>> >>),
      Arr(<< Str(<<"error">>) >>) }

JsonTexts == {<<Dumps(x), x>> : x \in JsonUniverse}

\* response.json(): the document whose text this is, or a decoding error
Loads(text) ==
    IF \E p \in JsonTexts : p[1] = text
    THEN [ok |-> TRUE, value |-> (CHOOSE p \in JsonTexts : p[1] = text)[2]]
    ELSE [ok |-> FALSE, value |-> None]

----------------------------------------------------------------------------
(* Configuration *)

DefaultBaseUrl == <<"http://localhost:4000", "/cubejs-api", "/", "v1">>

BaseUrls == { DefaultBaseUrl, <<"http://cube:4000", "/cubejs-api", "/", "v1", "/">> }

ApiTokens == { <<>>, <<"secret">> }

Configs == [base : BaseUrls, token : ApiTokens]

\* the values os.getenv falls back to
DefaultConfig == [base |-> DefaultBaseUrl, token |-> <<>>]

TimeoutStandard == 30
TimeoutHealth == 5

GET == <<"G", "E", "T">>
POST == <<"P", "O", "S", "T">>

\* get_headers(), were it to send the token whether or not one is configured
get_headers_always ==
    Dict(<< <<"Content-Type", Str(<<"application/json">>)>>,
            <<"Authorization", Str(config.token)>> >>)

\* get_headers()
get_headers ==
    IF config.token # <<>>
    THEN Dict(<< <<"Content-Type", Str(<<"application/json">>)>>,
                 <<"Authorization", Str(config.token)>> >>)
    ELSE Dict(<< <<"Content-Type", Str(<<"application/json">>)>> >>)

\* make_request: url
Url(endpoint) == RStrip(config.base, "/") \o <<"/">> \o LStrip(endpoint, "/")

\* check_health: url
HealthUrl == RStrip(SplitHead(config.base, <<"/cubejs-api">>), "/") \o <<"/readyz">>

----------------------------------------------------------------------------
(* The upstream API, as seen through httpx *)

\* status codes the API answers with
StatusCodes == {200, 404, 500}

\* status codes /readyz answers with
HealthStatusCodes == {200, 204, 500}

\* str(response.status_code)
StatusStr(status) ==
    CASE status = 200 -> "200"
      [] status = 204 -> "204"
      [] status = 404 -> "404"
      [] status = 500 -> "500"

NonJsonBody == <<"<html>", "Bad Gateway", "</html>">>

Bodies ==
    { NonJsonBody,
      Dumps(Dict(<< <<"error", Str(<<"not found">>)>> >>)),
      Dumps(Dict(<< <<"message", Str(<<"bad ", Quote, "query", Quote>>)>> >>)),
      Dumps(Arr(<< Str(<<"error">>) >>)) }

\* exceptions client.request / client.get raise without a response
TransportErrors == {"ConnectError", "ReadTimeout"}

HttpResponse(status, body) ==
    [kind |-> "http", status |-> status, body |-> body, exc |-> ""]

TransportFailure(exc) ==
    [kind |-> "transport", status |-> 0, body |-> <<>>, exc |-> exc]

\* what the upstream may do with a request of make_request
Responses ==
    {HttpResponse(st, b) : st \in StatusCodes, b \in Bodies}
    \cup {TransportFailure(x) : x \in TransportErrors}

\* what the upstream may do with GET /readyz
HealthResponses ==
    {HttpResponse(st, b) : st \in HealthStatusCodes,
                           b \in {NonJsonBody,
                                  Dumps(Dict(<< <<"error", Str(<<"not found">>)>> >>))}}
    \cup {TransportFailure(x) : x \in TransportErrors}

\* httpx.Response.is_success
IsSuccess(status) == status \div 100 = 2

\* str(e) of the httpx.HTTPStatusError raise_for_status() raises (the url and
\* the documentation link that follow the status are left out)
StatusErrorStr(status) ==
    << (CASE status \div 100 = 1 -> "Informational response"
          [] status \div 100 = 3 -> "Redirect response"
          [] status \div 100 = 4 -> "Client error"
          [] status \div 100 = 5 -> "Server error"
          [] OTHER -> "Invalid status code"),
       " '", StatusStr(status), "'" >>

\* str(e) of an exception raised without a response
TransportErrorStr(exc) ==
    CASE exc = "ConnectError" -> <<"All connection attempts failed">>
      [] exc = "ReadTimeout" -> <<>>

\* str(e) of the json.JSONDecodeError response.json() raises
DecodeErrorStr == <<"Expecting value">>

----------------------------------------------------------------------------
(* Outcomes of a coroutine *)

Returned(result, text) ==
    [kind |-> "returned", exc |-> "", msg |-> <<>>, result |-> result, text |-> text]

Raised(exc, msg) ==
    [kind |-> "raised", exc |-> exc, msg |-> msg, result |-> None, text |-> <<>>]

\* make_request, were it to raise on every non-2xx status
make_request_result_raise_on_status(r) ==
    IF r.kind = "transport"
    THEN Raised("RuntimeError", <<"Request failed: ">> \o TransportErrorStr(r.exc))
    ELSE IF IsSuccess(r.status)
    THEN IF Loads(r.body).ok
         THEN Returned(Loads(r.body).value, <<>>)
         ELSE Raised("RuntimeError", <<"Request failed: ">> \o DecodeErrorStr)
    ELSE Raised("RuntimeError",
                <<"API Request failed: ">> \o StatusErrorStr(r.status))

\* make_request, were the message of its inner raise to leave out str(e)
make_request_result_bare_message(r) ==
    IF r.kind = "transport"
    THEN Raised("RuntimeError", <<"Request failed: ">> \o TransportErrorStr(r.exc))
    ELSE IF IsSuccess(r.status)
    THEN IF Loads(r.body).ok
         THEN Returned(Loads(r.body).value, <<>>)
         ELSE Raised("RuntimeError", <<"Request failed: ">> \o DecodeErrorStr)
    ELSE IF Loads(r.body).ok /\ IsDict(Loads(r.body).value)
    THEN Returned(Dict(<< <<"error", DictGet(Loads(r.body).value, "error",
                                             Str(StatusErrorStr(r.status)))>> >>),
                  <<>>)
    ELSE Raised("RuntimeError", <<"API Request failed">>)

\* make_request, were a 2xx body that is not JSON to give None instead of raising
make_request_result_drop_decode_error(r) ==
    IF r.kind = "transport"
    THEN Raised("RuntimeError", <<"Request failed: ">> \o TransportErrorStr(r.exc))
    ELSE IF IsSuccess(r.status)
    THEN IF Loads(r.body).ok
         THEN Returned(Loads(r.body).value, <<>>)
         ELSE Returned(None, <<>>)
    ELSE IF Loads(r.body).ok /\ IsDict(Loads(r.body).value)
    THEN Returned(Dict(<< <<"error", DictGet(Loads(r.body).value, "error",
                                             Str(StatusErrorStr(r.status)))>> >>),
                  <<>>)
    ELSE Raised("RuntimeError",
                <<"API Request failed: ">> \o StatusErrorStr(r.status))

\* make_request, were it to return the parsed error body when it has no `error`
make_request_result_pass_body(r) ==
    IF r.kind = "transport"
    THEN Raised("RuntimeError", <<"Request failed: ">> \o TransportErrorStr(r.exc))
    ELSE IF IsSuccess(r.status)
    THEN IF Loads(r.body).ok
         THEN Returned(Loads(r.body).value, <<>>)
         ELSE Raised("RuntimeError", <<"Request failed: ">> \o DecodeErrorStr)
    ELSE IF Loads(r.body).ok /\ IsDict(Loads(r.body).value)
    THEN IF HasKey(Loads(r.body).value, "error")
         THEN Returned(Dict(<< <<"error", DictGet(Loads(r.body).value, "error",
                                                  None)>> >>), <<>>)
         ELSE Returned(Loads(r.body).value, <<>>)
    ELSE Raised("RuntimeError",
                <<"API Request failed: ">> \o StatusErrorStr(r.status))

\* make_request, from the end of `await client.request(...)` to its return or raise
make_request_result(r) ==
    IF r.kind = "transport"
    THEN Raised("RuntimeError", <<"Request failed: ">> \o TransportErrorStr(r.exc))
    ELSE IF IsSuccess(r.status)
    THEN IF Loads(r.body).ok
         THEN Returned(Loads(r.body).value, <<>>)
         ELSE Raised("RuntimeError", <<"Request failed: ">> \o DecodeErrorStr)
    ELSE IF Loads(r.body).ok /\ IsDict(Loads(r.body).value)
    THEN Returned(Dict(<< <<"error", DictGet(Loads(r.body).value, "error",
                                             Str(StatusErrorStr(r.status)))>> >>),
                  <<>>)
    ELSE Raised("RuntimeError",
                <<"API Request failed: ">> \o StatusErrorStr(r.status))

\* the tools built on make_request: TextContent(type="text", text=json.dumps(result))
ToolResult(o) ==
    IF o.kind = "returned" THEN Returned(o.result, Dumps(o.result)) ELSE o

\* check_health, were it to take every 2xx status for healthy
check_health_status_any_2xx(r) ==
    IF r.kind = "transport"
    THEN <<"Unreachable: ">> \o TransportErrorStr(r.exc)
    ELSE IF IsSuccess(r.status)
    THEN <<"OK">>
    ELSE <<"Unhealthy: ", StatusStr(r.status)>>

\* check_health, from the end of `await client.get(...)` to `status`
check_health_status(r) ==
    IF r.kind = "transport"
    THEN <<"Unreachable: ">> \o TransportErrorStr(r.exc)
    ELSE IF r.status = 200
    THEN <<"OK">>
    ELSE <<"Unhealthy: ", StatusStr(r.status)>>

----------------------------------------------------------------------------
(* Arguments the callers supply *)

Queries ==
    { Dict(<<>>),
      Dict(<< <<"measures", Arr(<< Str(<<"Stories.count">>) >>)>> >>) }

RawMethods == { <<"g", "e", "t">>, <<"P", "o", "s", "t">> }

\* endpoint, params and json_data of the raw_request calls
RawTargets ==
    { <<<<"meta">>, None, None>>,
      <<<<"/", "load">>, Dict(<< <<"limit", Str(<<"1">>)>> >>), Dict(<<>>)>> }

\* a tool invoked with one optional dict argument
Call(op, arg) ==
    [op |-> op, method |-> <<>>, endpoint |-> <<>>, params |-> None, arg |-> arg]

\* httpx.AsyncClient(): a new client object for the invocation
NewClient(i) == i

----------------------------------------------------------------------------
(* make_request *)

\* make_request up to `await client.request(...)`: the client is entered and
\* the request is handed to it
MakeRequestSend(i, c, method, endpoint, params, json_data) ==
    /\ pc[i] = "idle"
    /\ pc' = [pc EXCEPT ![i] = "sent"]
    /\ call' = [call EXCEPT ![i] = c]
    /\ frame' = [frame EXCEPT ![i] = [client |-> NewClient(i), fn |-> "make_request"]]
    /\ clients' = [clients EXCEPT ![NewClient(i)] =
                      [state |-> "open", users |-> @.users \cup {i}]]
    /\ request' = [request EXCEPT ![i] =
                      [method |-> method, params |-> params,
                       url |-> Url(endpoint), headers |-> get_headers,
                       json |-> json_data, timeout |-> TimeoutStandard,
                       client |-> NewClient(i)]]
    /\ sent' = [sent EXCEPT ![i] = @ + 1]
    /\ UNCHANGED <<config, response, outcome>>

\* the client, were it closed only when the coroutine returns
ClientExitOnReturn(i) ==
    clients' = IF outcome'[i].kind = "raised"
               THEN clients
               ELSE [clients EXCEPT ![frame[i].client] =
                        [state |-> "closed", users |-> @.users]]

\* the end of `async with httpx.AsyncClient() as client`, on return and on raise
ClientExit(i) ==
    clients' = [clients EXCEPT ![frame[i].client] =
                   [state |-> "closed", users |-> @.users]]

\* make_request, were it to send the request again after a transport failure
MakeRequestResumeRetry(i) ==
    /\ pc[i] = "sent"
    /\ frame[i].fn = "make_request"
    /\ \E r \in Responses :
          IF r.kind = "transport" /\ sent[i] < 2
          THEN /\ sent' = [sent EXCEPT ![i] = @ + 1]
               /\ UNCHANGED <<config, pc, call, request, response, outcome, frame,
                              clients>>
          ELSE /\ response' = [response EXCEPT ![i] = r]
               /\ outcome' = [outcome EXCEPT ![i] = ToolResult(make_request_result(r))]
               /\ ClientExit(i)
               /\ pc' = [pc EXCEPT ![i] = "done"]
               /\ call' = [call EXCEPT ![i] = NoCall]
               /\ request' = [request EXCEPT ![i] = NoRequest]
               /\ UNCHANGED <<config, sent, frame>>

\* make_request after the await: the response or the failure is turned into
\* the result, the client is left, and the tool wraps the result.  The
\* arguments and the request are not read again and go out of scope.
MakeRequestResume(i) ==
    /\ pc[i] = "sent"
    /\ frame[i].fn = "make_request"
    /\ \E r \in Responses :
          /\ response' = [response EXCEPT ![i] = r]
          /\ outcome' = [outcome EXCEPT ![i] = ToolResult(make_request_result(r))]
    /\ ClientExit(i)
    /\ pc' = [pc EXCEPT ![i] = "done"]
    /\ call' = [call EXCEPT ![i] = NoCall]
    /\ request' = [request EXCEPT ![i] = NoRequest]
    /\ UNCHANGED <<config, sent, frame>>

----------------------------------------------------------------------------
(* The tools *)

\* execute_query, were it to pass the query object itself as the parameter
execute_query_unserialized(i) ==
    \E query \in Queries :
        MakeRequestSend(i, Call("execute_query", query), GET, <<"load">>,
                        Dict(<< <<"query", query>> >>), None)

\* raw_request, were it to pass the method as the caller wrote it
raw_request_as_written(i) ==
    \E method \in RawMethods, target \in RawTargets :
        LET endpoint == target[1]
            params == target[2]
            json_data == target[3]
        IN  MakeRequestSend(i,
                            [op |-> "raw_request", method |-> method,
                             endpoint |-> endpoint, params |-> params,
                             arg |-> json_data],
                            method, endpoint, params, json_data)

list_cubes(i) ==
    MakeRequestSend(i, Call("list_cubes", None), GET, <<"meta">>, None, None)

execute_query(i) ==
    \E query \in Queries :
        MakeRequestSend(i, Call("execute_query", query), GET, <<"load">>,
                        Dict(<< <<"query", Str(Dumps(query))>> >>), None)

execute_query_post(i) ==
    \E query \in Queries :
        MakeRequestSend(i, Call("execute_query_post", query), POST, <<"load">>,
                        None, Dict(<< <<"query", query>> >>))

get_sql(i) ==
    \E query \in Queries :
        MakeRequestSend(i, Call("get_sql", query), GET, <<"sql">>,
                        Dict(<< <<"query", Str(Dumps(query))>> >>), None)

get_schema(i) ==
    MakeRequestSend(i, Call("get_schema", None), GET, <<"schema">>, None, None)

refresh(i) ==
    \E query \in Queries :
        MakeRequestSend(i, Call("refresh", query), POST, <<"refresh">>,
                        None, Dict(<< <<"query", query>> >>))

refresh_pre_aggregations(i) ==
    \E payload \in Queries :
        MakeRequestSend(i, Call("refresh_pre_aggregations", payload), POST,
                        <<"pre-aggregations", "/", "refresh">>, None, payload)

scheduled_refresh(i) ==
    \E schedule \in Queries :
        MakeRequestSend(i, Call("scheduled_refresh", schedule), POST,
                        <<"refresh", "/", "schedule">>, None, schedule)

raw_request(i) ==
    \E method \in RawMethods, target \in RawTargets :
        LET endpoint == target[1]
            params == target[2]
            json_data == target[3]
        IN  MakeRequestSend(i,
                            [op |-> "raw_request", method |-> method,
                             endpoint |-> endpoint, params |-> params,
                             arg |-> json_data],
                            Upper(method), endpoint, params, json_data)

\* check_health up to `await client.get(url, timeout=5.0)`
check_health(i) ==
    /\ pc[i] = "idle"
    /\ pc' = [pc EXCEPT ![i] = "sent"]
    /\ call' = [call EXCEPT ![i] = Call("check_health", None)]
    /\ frame' = [frame EXCEPT ![i] = [client |-> NewClient(i), fn |-> "check_health"]]
    /\ clients' = [clients EXCEPT ![NewClient(i)] =
                      [state |-> "open", users |-> @.users \cup {i}]]
    /\ request' = [request EXCEPT ![i] =
                      [method |-> GET, params |-> None, url |-> HealthUrl,
                       headers |-> None, json |-> None,
                       timeout |-> TimeoutHealth, client |-> NewClient(i)]]
    /\ sent' = [sent EXCEPT ![i] = @ + 1]
    /\ UNCHANGED <<config, response, outcome>>

\* check_health after the await
CheckHealthResume(i) ==
    /\ pc[i] = "sent"
    /\ frame[i].fn = "check_health"
    /\ \E r \in HealthResponses :
          /\ response' = [response EXCEPT ![i] = r]
          /\ outcome' = [outcome EXCEPT ![i] = Returned(None, check_health_status(r))]
    /\ ClientExit(i)
    /\ pc' = [pc EXCEPT ![i] = "done"]
    /\ call' = [call EXCEPT ![i] = NoCall]
    /\ request' = [request EXCEPT ![i] = NoRequest]
    /\ UNCHANGED <<config, sent, frame>>

----------------------------------------------------------------------------
(* The specification *)

Init ==
    /\ config \in Configs
    /\ pc = [i \in Inv |-> "idle"]
    /\ call = [i \in Inv |-> NoCall]
    /\ request = [i \in Inv |-> NoRequest]
    /\ sent = [i \in Inv |-> 0]
    /\ response = [i \in Inv |-> NoResponse]
    /\ outcome = [i \in Inv |-> NoOutcome]
    /\ frame = [i \in Inv |-> NoFrame]
    /\ clients = [c \in Inv |-> [state |-> "unborn", users |-> {}]]

Next ==
    \E i \in Inv :
        \/ list_cubes(i)
        \/ execute_query(i)
        \/ execute_query_post(i)
        \/ get_sql(i)
        \/ get_schema(i)
        \/ refresh(i)
        \/ refresh_pre_aggregations(i)
        \/ scheduled_refresh(i)
        \/ raw_request(i)
        \/ check_health(i)
        \/ MakeRequestResume(i)
        \/ CheckHealthResume(i)

Spec == Init /\ [][Next]_vars

\* the event loop resumes every coroutine whose await has completed, and every
\* request ends by a response, a transport error or the timeout
Fairness ==
    \A i \in Inv : /\ WF_vars(MakeRequestResume(i))
                   /\ WF_vars(CheckHealthResume(i))

\* the server started without CUBEJS_API_BASE_URL and CUBEJS_API_TOKEN set
InitDefault == Init /\ config = DefaultConfig

FairSpec == InitDefault /\ [][Next]_vars /\ Fairness

----------------------------------------------------------------------------
(* Vocabulary of the properties *)

Ended(i) == pc[i] = "done"

InFlight(i) == pc[i] = "sent"

ByMakeRequest(i) == frame[i].fn = "make_request"

ByCheckHealth(i) == frame[i].fn = "check_health"

GotStatus(i) == response[i].kind = "http"

NonSuccess(i) == GotStatus(i) /\ ~(response[i].status \in 200 .. 299)

\* the JSON documents a text is the serialization of
DocumentsOf(text) == {x \in JsonUniverse : Dumps(x) = text}

Contains(s, tok) == \E k \in DOMAIN s : s[k] = tok

ErrorMapping(value) == Dict(<< <<"error", value>> >>)

IsErrorMapping(x) == IsDict(x) /\ Len(x.v) = 1 /\ x.v[1][1] = "error"

RaisedRequestFailed(i) ==
    /\ outcome[i].kind = "raised"
    /\ outcome[i].exc = "RuntimeError"
    /\ outcome[i].result = None
    /\ outcome[i].text = <<>>

NotFoundBody == <<"{", Quote, "error", Quote, ": ", Quote, "not found", Quote, "}">>

----------------------------------------------------------------------------
(* C1 *)

\* C1: an invocation routed through make_request whose upstream answer has a
\* non-2xx status and a body that is a JSON object with an `error` field
\* returns {error: <that field's value>} as a normal result and does not
\* raise; status 404 with body {"error": "not found"} returns
\* {"error": "not found"}.
C1_UpstreamErrorReturned ==
    \A i \in Inv :
        (Ended(i) /\ ByMakeRequest(i) /\ NonSuccess(i)) =>
            /\ \A x \in DocumentsOf(response[i].body) :
                  (IsDict(x) /\ HasKey(x, "error")) =>
                      /\ outcome[i].kind = "returned"
                      /\ outcome[i].result = ErrorMapping(DictGet(x, "error", None))
            /\ (response[i].status = 404 /\ response[i].body = NotFoundBody) =>
                  /\ outcome[i].kind = "returned"
                  /\ outcome[i].result = ErrorMapping(Str(<<"not found">>))
                  /\ outcome[i].text = NotFoundBody

C1_Witness ==
    \E i \in Inv :
        /\ Ended(i) /\ ByMakeRequest(i)
        /\ response[i].status = 404 /\ response[i].body = NotFoundBody
        /\ outcome[i].kind = "returned"

----------------------------------------------------------------------------
(* C2 *)

\* C2: an invocation routed through make_request whose upstream answer has a
\* non-2xx status and a body that is not JSON raises RequestFailed
\* (RuntimeError) with the HTTP status code in its message, and returns no
\* result payload.
C2_NonJsonErrorRaises ==
    \A i \in Inv :
        (Ended(i) /\ ByMakeRequest(i) /\ NonSuccess(i)
         /\ DocumentsOf(response[i].body) = {}) =>
            /\ RaisedRequestFailed(i)
            /\ Contains(outcome[i].msg, StatusStr(response[i].status))
            /\ response[i].status = 500 => Contains(outcome[i].msg, "500")

C2_Witness ==
    \E i \in Inv :
        /\ Ended(i) /\ ByMakeRequest(i)
        /\ response[i].status = 500 /\ response[i].body = NonJsonBody
        /\ outcome[i].kind = "raised"

----------------------------------------------------------------------------
(* C3 *)

\* C3: no invocation ever sends more than one HTTP request, and an invocation
\* of a standard operation or raw_request whose request failed at transport
\* level (connection error, timeout) has ended by raising RequestFailed after
\* that one request.
C3_NoRetry ==
    \A i \in Inv :
        /\ sent[i] <= 1
        /\ (Ended(i) /\ ByMakeRequest(i) /\ response[i].kind = "transport") =>
              RaisedRequestFailed(i) /\ sent[i] = 1

C3_Witness ==
    \E i \in Inv :
        /\ Ended(i) /\ ByMakeRequest(i)
        /\ response[i] = TransportFailure("ReadTimeout")
        /\ outcome[i].kind = "raised"
        /\ sent[i] = 1

----------------------------------------------------------------------------
(* C4 *)

\* C4: the health check never raises; its result is one plain string: `OK`
\* exactly when a response with status 200 was received, `Unhealthy: <status>`
\* when a response with another status was received, `Unreachable: <cause>`
\* when the request failed at transport level; never an {error: ...} mapping.
C4_HealthNeverRaises ==
    \A i \in Inv :
        (Ended(i) /\ ByCheckHealth(i)) =>
            /\ outcome[i].kind = "returned"
            /\ outcome[i].exc = ""
            /\ (outcome[i].text = <<"OK">>)
                  <=> (GotStatus(i) /\ response[i].status = 200)
            /\ (GotStatus(i) /\ response[i].status # 200) =>
                  outcome[i].text = <<"Unhealthy: ", StatusStr(response[i].status)>>
            /\ (response[i].kind = "transport") =>
                  /\ Len(outcome[i].text) >= 1
                  /\ outcome[i].text[1] = "Unreachable: "
                  /\ Tail(outcome[i].text) = TransportErrorStr(response[i].exc)
            /\ outcome[i].result = None
            /\ \A x \in JsonUniverse : IsDict(x) => outcome[i].text # Dumps(x)

C4_Witness ==
    \E i, j \in Inv :
        /\ Ended(i) /\ ByCheckHealth(i)
        /\ response[i].status = 204
        /\ outcome[i].text = <<"Unhealthy: ", "204">>
        /\ Ended(j) /\ ByCheckHealth(j)
        /\ response[j].kind = "transport"
        /\ outcome[j].kind = "returned"

----------------------------------------------------------------------------
(* C5 *)

\* the three ways an invocation routed through make_request ends
SuccessPayload(i) ==
    /\ outcome[i].kind = "returned"
    /\ GotStatus(i) /\ ~NonSuccess(i)
    /\ outcome[i].result \in DocumentsOf(response[i].body)
    /\ outcome[i].text = Dumps(outcome[i].result)

NormalizedError(i) ==
    /\ outcome[i].kind = "returned"
    /\ NonSuccess(i)
    /\ IsErrorMapping(outcome[i].result)
    /\ outcome[i].text = Dumps(outcome[i].result)

B2N(b) == IF b THEN 1 ELSE 0

EndsOneWay(i) ==
    B2N(SuccessPayload(i)) + B2N(NormalizedError(i)) + B2N(RaisedRequestFailed(i)) = 1

\* C5: every invocation routed through make_request eventually ends (from
\* some point on none is in flight any more), and an ended one has exactly one
\* of: a success payload (the upstream's JSON body, on a 2xx answer), a
\* normalized error payload (a mapping with the single key `error`, on a
\* non-2xx answer), a raised RequestFailed; whatever the upstream did.
C5_EndsInOneOutcome ==
    /\ [](\A i \in Inv : (Ended(i) /\ ByMakeRequest(i)) => EndsOneWay(i))
    /\ <>[](\A i \in Inv : ~(InFlight(i) /\ ByMakeRequest(i)))

C5_Witness ==
    \E i, j \in Inv :
        /\ Ended(i) /\ ByMakeRequest(i)
        /\ response[i] = HttpResponse(200, NonJsonBody)
        /\ RaisedRequestFailed(i)
        /\ Ended(j) /\ ByMakeRequest(j)
        /\ response[j] = TransportFailure("ReadTimeout")
        /\ RaisedRequestFailed(j)

----------------------------------------------------------------------------
(* C6 *)

\* C6: under every interleaving each started invocation has a client of its
\* own that no other invocation uses, its request goes through that client
\* while the client is open, and the client of an ended invocation is closed,
\* however it ended; so when all invocations have ended no client is open.
C6_ClientPerInvocation ==
    /\ \A i \in Inv :
          pc[i] # "idle" =>
              /\ frame[i].client \in DOMAIN clients
              /\ clients[frame[i].client].users = {i}
              /\ InFlight(i) =>
                    /\ request[i].client = frame[i].client
                    /\ clients[frame[i].client].state = "open"
              /\ Ended(i) => clients[frame[i].client].state = "closed"
    /\ \A i, j \in Inv :
          (i # j /\ pc[i] # "idle" /\ pc[j] # "idle") =>
              frame[i].client # frame[j].client
    /\ (\A i \in Inv : Ended(i)) =>
          \A c \in DOMAIN clients : clients[c].state # "open"

C6_Witness ==
    \E i, j \in Inv :
        /\ i # j
        /\ Ended(i) /\ ByMakeRequest(i) /\ outcome[i].kind = "raised"
        /\ clients[frame[i].client].state = "closed"
        /\ InFlight(j) /\ ByCheckHealth(j)
        /\ clients[frame[j].client].state = "open"

----------------------------------------------------------------------------
(* C7 *)

\* C7: with a non-empty token configured every request in flight for make_request
\* carries an Authorization header whose value is exactly the token; with an
\* empty token it carries no Authorization header; the request of the health
\* check never carries one.
C7_AuthorizationHeader ==
    \A i \in Inv :
        InFlight(i) =>
            /\ (ByMakeRequest(i) /\ config.token # <<>>) =>
                  /\ HasKey(request[i].headers, "Authorization")
                  /\ DictGet(request[i].headers, "Authorization", None)
                        = Str(config.token)
            /\ (ByMakeRequest(i) /\ config.token = <<>>) =>
                  ~HasKey(request[i].headers, "Authorization")
            /\ ByCheckHealth(i) => ~HasKey(request[i].headers, "Authorization")

C7_Witness ==
    \E i, j \in Inv :
        /\ config.token = <<"secret">>
        /\ InFlight(i) /\ call[i].op = "raw_request"
        /\ DictGet(request[i].headers, "Authorization", None) = Str(<<"secret">>)
        /\ InFlight(j) /\ ByCheckHealth(j)

----------------------------------------------------------------------------
(* C8 *)

\* a request without the client that carries it
OnTheWire(q) == <<q.method, q.url, q.headers, q.params, q.json, q.timeout>>

RawGetMeta(i) ==
    /\ InFlight(i)
    /\ call[i].op = "raw_request"
    /\ call[i].method = <<"g", "e", "t">>
    /\ call[i].endpoint = <<"meta">>
    /\ call[i].params = None
    /\ call[i].arg = None

\* C8: raw_request hands endpoint, query parameters and body to make_request
\* as given and the method in upper case; called with "get", "meta" and no
\* params or body its request is the request of list_cubes (method GET, same
\* url, same headers, no query, no body), and two invocations routed through
\* make_request that meet the same upstream behaviour end the same way.
C8_RawRequestForwards ==
    /\ \A i \in Inv :
          (InFlight(i) /\ call[i].op = "raw_request") =>
              /\ ByMakeRequest(i)
              /\ request[i].url = Url(call[i].endpoint)
              /\ request[i].params = call[i].params
              /\ request[i].json = call[i].arg
              /\ call[i].method = <<"g", "e", "t">> =>
                    request[i].method = <<"G", "E", "T">>
              /\ call[i].method = <<"P", "o", "s", "t">> =>
                    request[i].method = <<"P", "O", "S", "T">>
    /\ \A i, j \in Inv :
          (RawGetMeta(i) /\ InFlight(j) /\ call[j].op = "list_cubes") =>
              /\ OnTheWire(request[i]) = OnTheWire(request[j])
              /\ request[i].method = <<"G", "E", "T">>
              /\ request[i].params = None
              /\ request[i].json = None
    /\ \A i, j \in Inv :
          (Ended(i) /\ ByMakeRequest(i) /\ Ended(j) /\ ByMakeRequest(j)
           /\ response[i] = response[j]) =>
              outcome[i] = outcome[j]

C8_Witness ==
    \E i, j \in Inv :
        /\ RawGetMeta(i)
        /\ InFlight(j) /\ call[j].op = "list_cubes"
        /\ request[i].url = request[j].url

----------------------------------------------------------------------------
(* C9 *)

\* the call shapes of the catalog table
SendsQueryParameter(i) ==
    /\ IsDict(request[i].params)
    /\ Len(request[i].params.v) = 1
    /\ request[i].params.v[1][1] = "query"
    /\ request[i].params.v[1][2].t = "str"
    /\ DocumentsOf(request[i].params.v[1][2].v) = {call[i].arg}
    /\ request[i].json = None

SendsQueryBody(i) ==
    /\ request[i].json = Dict(<< <<"query", call[i].arg>> >>)
    /\ request[i].params = None

SendsPayload(i) ==
    /\ request[i].json = call[i].arg
    /\ request[i].params = None

SendsNothing(i) ==
    /\ request[i].json = None
    /\ request[i].params = None

Targets(i, method, endpoint) ==
    /\ ByMakeRequest(i)
    /\ request[i].method = method
    /\ request[i].url = Url(endpoint)

\* C9: each standard operation sends the call of the catalog table, whatever
\* its argument: list_cubes GET meta and get_schema GET schema with no
\* params and no body; execute_query GET load and get_sql GET sql with the
\* query serialized into the one parameter `query` and no body;
\* execute_query_post POST load and refresh POST refresh with body
\* {"query": <object>} and no params; refresh_pre_aggregations POST
\* pre-aggregations/refresh and scheduled_refresh POST refresh/schedule with
\* the caller's payload as body.
C9_CatalogTable ==
    \A i \in Inv :
        InFlight(i) =>
            /\ call[i].op = "list_cubes" =>
                  Targets(i, <<"G", "E", "T">>, <<"meta">>) /\ SendsNothing(i)
            /\ call[i].op = "get_schema" =>
                  Targets(i, <<"G", "E", "T">>, <<"schema">>) /\ SendsNothing(i)
            /\ call[i].op = "execute_query" =>
                  Targets(i, <<"G", "E", "T">>, <<"load">>) /\ SendsQueryParameter(i)
            /\ call[i].op = "get_sql" =>
                  Targets(i, <<"G", "E", "T">>, <<"sql">>) /\ SendsQueryParameter(i)
            /\ call[i].op = "execute_query_post" =>
                  Targets(i, <<"P", "O", "S", "T">>, <<"load">>) /\ SendsQueryBody(i)
            /\ call[i].op = "refresh" =>
                  Targets(i, <<"P", "O", "S", "T">>, <<"refresh">>) /\ SendsQueryBody(i)
            /\ call[i].op = "refresh_pre_aggregations" =>
                  /\ Targets(i, <<"P", "O", "S", "T">>,
                             <<"pre-aggregations", "/", "refresh">>)
                  /\ SendsPayload(i)
            /\ call[i].op = "scheduled_refresh" =>
                  /\ Targets(i, <<"P", "O", "S", "T">>, <<"refresh", "/", "schedule">>)
                  /\ SendsPayload(i)

C9_Witness ==
    \E i, j \in Inv :
        /\ InFlight(i) /\ call[i].op = "execute_query"
        /\ call[i].arg # Dict(<<>>)
        /\ SendsQueryParameter(i)
        /\ InFlight(j) /\ call[j].op = "refresh_pre_aggregations"
        /\ SendsPayload(j)

----------------------------------------------------------------------------
(* C10 *)

\* C10: on a non-2xx answer whose body is JSON without an `error` field,
\* make_request returns {error: <text of the status error, with the status
\* code>} when the body is a JSON object and raises RequestFailed when it is
\* any other JSON value; so a non-2xx answer never yields a payload other
\* than a mapping with the single key `error`.
C10_ErrorBodyWithoutField ==
    \A i \in Inv :
        (Ended(i) /\ ByMakeRequest(i) /\ NonSuccess(i)) =>
            /\ \A x \in DocumentsOf(response[i].body) :
                  /\ (IsDict(x) /\ ~HasKey(x, "error")) =>
                        /\ outcome[i].kind = "returned"
                        /\ IsErrorMapping(outcome[i].result)
                        /\ outcome[i].result.v[1][2].t = "str"
                        /\ Contains(outcome[i].result.v[1][2].v,
                                    StatusStr(response[i].status))
                  /\ ~IsDict(x) => RaisedRequestFailed(i)
            /\ outcome[i].kind = "returned" => IsErrorMapping(outcome[i].result)

C10_Witness ==
    \E i, j \in Inv :
        /\ Ended(i) /\ ByMakeRequest(i)
        /\ response[i].status = 500
        /\ response[i].body = Dumps(Dict(<< <<"message",
                                             Str(<<"bad ", Quote, "query", Quote>>)>> >>))
        /\ outcome[i].kind = "returned"
        /\ Ended(j) /\ ByMakeRequest(j)
        /\ response[j].status = 404
        /\ response[j].body = Dumps(Arr(<< Str(<<"error">>) >>))
        /\ outcome[j].kind = "raised"

====
